---- MODULE Spec2Model ----
(***************************************************************************)
(* Model of converty.py: the command line driver (main), the per-file step *)
(* (process_file) and the two converters (convert_uyvy, convert_nv12),     *)
(* including the numpy reshape and the cv2.cvtColor calls they make.       *)
(***************************************************************************)
EXTENDS Integers, Sequences, FiniteSets, TLC

VARIABLES
    pc,        \* position of the program: start, loop, done, exit0, exit1, crashed, returned
    via,       \* how process_file is entered: "none", "main" (the CLI) or "caller" (imported module)
    width,     \* resolved width  (main's local, process_file's parameter)
    height,    \* resolved height
    fmt,       \* resolved format tag
    files,     \* files_to_process, the sorted list of input paths
    idx,       \* number of files the batch loop has handed to process_file
    outdir,    \* names of the files present in the output directory
    log,       \* one entry per process_file call, in call order
    last,      \* the locals of the most recent process_file call
    yuv,       \* input triple <<Y, U, V>> of the colour transform
    bgr        \* output pixel <<B, G, R>> of the colour transform, <<>> before it ran

vars == <<pc, via, width, height, fmt, files, idx, outdir, log, last, yuv, bgr>>

----------------------------------------------------------------------------
(* Bounds of the model *)

\* largest explicit --width / --height given on the command line
MaxW == 4
MaxH == 4

\* Python's None for an optional integer or string argument
None == <<>>
Some(v) == <<v>>

NoImage == <<>>
NoName == ""

----------------------------------------------------------------------------
(* PRESETS, the format tags and the input paths *)

PRESETS ==
    [ss2 |-> [width |-> 1920, height |-> 1280, format |-> "uyvy"],
     ss3 |-> [width |-> 1920, height |-> 1536, format |-> "uyvy"],
     ss4 |-> [width |-> 1920, height |-> 1536, format |-> "nv12"]]

PresetNames == {"ss2", "ss3", "ss4"}

\* argparse choices of --format
FormatChoices == {"uyvy", "nv12"}

\* tags an importing caller may hand to process_file
CallerFormats == {"uyvy", "nv12", "yuyv"}

\* input paths d1/a.raw, d1/a_1.raw, d2/a.raw in the order sorted() gives them
AllPaths ==
    << [dir |-> "d1", stem |-> "a"],
       [dir |-> "d1", stem |-> "a_1"],
       [dir |-> "d2", stem |-> "a"] >>

\* files the output directory may hold before the program starts
OldNames == {"a.png", "a_1.png"}

\* bytes fed to the colour transform on its own
ByteSamples == {0, 1, 15, 16, 17, 127, 128, 129, 234, 235, 254, 255}

\* file contents: byte i (0-based) is (seed + step*i) mod 256
Fills == {[seed |-> 128, step |-> 0], [seed |-> 16, step |-> 5]}

DataOf(n, fill) == [i \in 1..n |-> (fill.seed + fill.step * (i - 1)) % 256]

----------------------------------------------------------------------------
(* Python and numpy primitives *)

\* int(x) of the float num/den: truncation toward zero
IntTrunc(num, den) ==
    IF num >= 0 THEN num \div den ELSE -((-num) \div den)

\* int(height * 1.5)
IntHeight15Round(h) == (3 * h + 1) \div 2
IntHeight15(h) == IntTrunc(3 * h, 2)

\* `not v` for an optional int: None and 0 are falsy, every other int is truthy
NotInt(opt) == opt = None \/ opt[1] = 0

\* `not v` for an optional string (the tags are never empty)
NotStr(opt) == opt = None

RECURSIVE Product(_)
Product(dims) ==
    IF dims = <<>> THEN 1 ELSE Head(dims) * Product(Tail(dims))

\* ndarray.reshape(dims) on a 1-D array of `size` elements: TRUE when numpy
\* accepts the shape, FALSE when it raises ValueError.  One dimension may be
\* -1 (inferred); any other negative dimension is rejected.
ReshapeOK(size, dims) ==
    LET neg  == {i \in 1..Len(dims) : dims[i] < 0}
        rest == [i \in 1..Len(dims) |-> IF dims[i] < 0 THEN 1 ELSE dims[i]]
    IN  IF neg = {} THEN Product(dims) = size
        ELSE /\ Cardinality(neg) = 1
             /\ \A i \in neg : dims[i] = -1
             /\ IF Product(rest) = 0 THEN FALSE
                ELSE size % Product(rest) = 0

\* the shape of the array reshape returns: a -1 is replaced by the inferred length
ReshapeDims(size, dims) ==
    LET rest == [i \in 1..Len(dims) |-> IF dims[i] < 0 THEN 1 ELSE dims[i]]
    IN  [i \in 1..Len(dims) |->
            IF dims[i] < 0 THEN size \div Product(rest) ELSE dims[i]]

----------------------------------------------------------------------------
(* cv2.cvtColor, as OpenCV 4.x computes COLOR_YUV2BGR_UYVY and              *)
(* COLOR_YUV2BGR_NV12: ITU-R BT.601 with limited-range luma, in 20-bit      *)
(* fixed point (the ITUR_BT_601_* constants of OpenCV's color_yuv code).    *)

ITUR_BT_601_CY == 1220542
ITUR_BT_601_CUB == 2116026
ITUR_BT_601_CUG == -409993
ITUR_BT_601_CVG == -852492
ITUR_BT_601_CVR == 1673527
ITUR_BT_601_SHIFT == 20

Pow2(n) == 2 ^ n

Max(a, b) == IF a >= b THEN a ELSE b

\* saturate_cast<uchar>
SaturateOff(v) == v
SaturateU8(v) == IF v < 0 THEN 0 ELSE IF v > 255 THEN 255 ELSE v

\* x >> ITUR_BT_601_SHIFT on a signed int: arithmetic shift, i.e. floor division
Shr(x) == x \div Pow2(ITUR_BT_601_SHIFT)

\* the full-range (JFIF) transform R = Y + 1.402 (V-128), ..., in the same fixed point
YUV2BGRFullRange(y, u, v) ==
    LET uu   == u - 128
        vv   == v - 128
        half == Pow2(ITUR_BT_601_SHIFT - 1)
        yy   == y * Pow2(ITUR_BT_601_SHIFT)
    IN  << SaturateU8(Shr(yy + half + 1858077 * uu)),
           SaturateU8(Shr(yy + half - 360853 * uu - 748826 * vv)),
           SaturateU8(Shr(yy + half + 1470104 * vv)) >>

\* one pixel: uvToRGBuv followed by yRGBuvToRGBA, in B, G, R order
YUV2BGR(y, u, v) ==
    LET uu   == u - 128
        vv   == v - 128
        half == Pow2(ITUR_BT_601_SHIFT - 1)
        ruv  == half + ITUR_BT_601_CVR * vv
        guv  == half + ITUR_BT_601_CVG * vv + ITUR_BT_601_CUG * uu
        buv  == half + ITUR_BT_601_CUB * uu
        yy   == Max(0, y - 16) * ITUR_BT_601_CY
    IN  << SaturateU8(Shr(yy + buv)),
           SaturateU8(Shr(yy + guv)),
           SaturateU8(Shr(yy + ruv)) >>

\* 1-based position in the flat buffer of the first byte (U) of the 4-byte
\* group [U, Y0, V, Y1] that holds pixel (x, y) of a UYVY image `w` wide
UYVYGroup(x, y, w) == 2 * (y * w + 2 * (x \div 2)) + 1

\* <<Y, U, V>> consumed for pixel (x, y) of a UYVY image
UYVYSample(data, x, y, w) ==
    LET g == UYVYGroup(x, y, w)
    IN  << IF x % 2 = 0 THEN data[g + 1] ELSE data[g + 3], data[g], data[g + 2] >>

\* 1-based position of the luma byte of pixel (x, y): plane 1, row-major
NV12LumaPos(x, y, w) == y * w + x + 1

\* 1-based position of the U byte used for pixel (x, y); V is the next byte.
\* The chroma plane starts after the h*w luma bytes, one row of w bytes
\* (w/2 interleaved U,V pairs) for every two luma rows.
NV12ChromaPosFirstRow(x, y, w, h) == h * w + 2 * (x \div 2) + 1
NV12ChromaPos(x, y, w, h) == h * w + (y \div 2) * w + 2 * (x \div 2) + 1

\* <<Y, U, V>> consumed for pixel (x, y) of an NV12 image
NV12Sample(data, x, y, w, h) ==
    << data[NV12LumaPos(x, y, w)],
       data[NV12ChromaPos(x, y, w, h)],
       data[NV12ChromaPos(x, y, w, h) + 1] >>

ToBGR(samples) ==
    [r \in DOMAIN samples |->
        [c \in DOMAIN samples[r] |->
            YUV2BGR(samples[r][c][1], samples[r][c][2], samples[r][c][3])]]

\* cv2.cvtColor(src, COLOR_YUV2BGR_UYVY) on a rows x cols x 2 array: raises
\* cv2.error on an empty array or an odd number of columns, else returns the
\* rows x cols x 3 image (rows and columns 1-based here).  `samples`
\* records the <<Y,U,V>> read per pixel.
cvtColor_UYVY(data, rows, cols) ==
    IF rows <= 0 \/ cols <= 0 \/ cols % 2 # 0
    THEN [raised |-> TRUE, samples |-> NoImage, img |-> NoImage]
    ELSE LET S == [r \in 1..rows |-> [c \in 1..cols |->
                        UYVYSample(data, c - 1, r - 1, cols)]]
         IN  [raised |-> FALSE, samples |-> S, img |-> ToBGR(S)]

\* cv2.cvtColor(src, COLOR_YUV2BGR_NV12) on a rows x cols single-channel
\* array: raises cv2.error unless cols is even and rows is a multiple of 3,
\* else returns the (rows*2/3) x cols x 3 image.
cvtColor_NV12(data, rows, cols) ==
    IF rows <= 0 \/ cols <= 0 \/ cols % 2 # 0 \/ rows % 3 # 0
    THEN [raised |-> TRUE, samples |-> NoImage, img |-> NoImage]
    ELSE LET h == (rows * 2) \div 3
             S == [r \in 1..h |-> [c \in 1..cols |->
                        NV12Sample(data, c - 1, r - 1, cols, h)]]
         IN  [raised |-> FALSE, samples |-> S, img |-> ToBGR(S)]

----------------------------------------------------------------------------
(* convert_uyvy and convert_nv12 *)

\* expected_size = width * height * 2
ExpectedUYVY(w, h) == w * h * 2

\* expected_size = int(width * height * 1.5); the float product is exact for
\* every width*height below 2^52
ExpectedNV12RowWise(w, h) == w * IntHeight15(h)
ExpectedNV12(w, h) == IntTrunc(3 * (w * h), 2)

\* error sites wrapped in `try: ... except Exception`
CaughtSitesNoRead == {"convert_uyvy", "convert_nv12"}
CaughtSites == {"read", "convert_uyvy", "convert_nv12"}

\* The result of a converter: `expected` is its expected_size, `shape` the
\* shape handed to reshape, `error` is "size" (mismatch branch), "convert"
\* (an exception caught by the except clause) or "none"; img is NoImage
\* exactly when the converter returns None.
ConvResult(expected, shape, error, cvt) ==
    [expected |-> expected, shape |-> shape, error |-> error,
     samples |-> IF error = "none" THEN cvt.samples ELSE NoImage,
     img |-> IF error = "none" THEN cvt.img ELSE NoImage]

NoCvt == [raised |-> TRUE, samples |-> NoImage, img |-> NoImage]

convert_uyvy(data, w, h) ==
    LET expected == ExpectedUYVY(w, h)
        shape    == <<h, w, 2>>
    IN  IF Len(data) # expected
        THEN ConvResult(expected, shape, "size", NoCvt)
        ELSE IF ~ReshapeOK(Len(data), shape)
        THEN ConvResult(expected, shape, "convert", NoCvt)
        ELSE LET dims == ReshapeDims(Len(data), shape)
                 cvt  == cvtColor_UYVY(data, dims[1], dims[2])
             IN  ConvResult(expected, shape,
                            IF cvt.raised THEN "convert" ELSE "none", cvt)

convert_nv12(data, w, h) ==
    LET expected == ExpectedNV12(w, h)
        shape    == <<IntHeight15(h), w>>
    IN  IF Len(data) # expected
        THEN ConvResult(expected, shape, "size", NoCvt)
        ELSE IF ~ReshapeOK(Len(data), shape)
        THEN ConvResult(expected, shape, "convert", NoCvt)
        ELSE LET dims == ReshapeDims(Len(data), shape)
                 cvt  == cvtColor_NV12(data, dims[1], dims[2])
             IN  ConvResult(expected, shape,
                            IF cvt.raised THEN "convert" ELSE "none", cvt)

----------------------------------------------------------------------------
(* process_file *)

PngName(stem) == stem \o ".png"
PngNameN(stem, counter) == stem \o "_" \o ToString(counter) \o ".png"

\* the `while output_path.exists()` loop, entered with output_path and counter
RECURSIVE Probe(_, _, _, _)
Probe(dir, stem, output_path, counter) ==
    IF output_path \in dir
    THEN Probe(dir, stem, PngNameN(stem, counter), counter + 1)
    ELSE output_path

\* the path cv2.imwrite is given
OutputPathNoProbe(dir, stem) == PngName(stem)
OutputPath(dir, stem) == Probe(dir, stem, PngName(stem), 1)

\* `if img is not None:`
ShouldSaveAlways(img) == TRUE
ShouldSave(img) == img # NoImage

\* the `if fmt == 'uyvy' ... elif fmt == 'nv12' ... else` chain: the converter called
Dispatch(f) ==
    IF f = "uyvy" THEN "convert_uyvy"
    ELSE IF f = "nv12" THEN "convert_nv12"
    ELSE "none"

\* what np.fromfile finds: an unreadable path, or `size` bytes filled by `fill`
Unreadable == [readable |-> FALSE, size |-> 0, fill |-> [seed |-> 0, step |-> 0]]

NoConv ==
    [expected |-> 0, shape |-> <<>>, error |-> "none",
     samples |-> NoImage, img |-> NoImage]

\* One call process_file(path, dir, w, h, f) on a file holding `content`:
\* the call's locals (`last`) and the output directory afterwards.  `raised`
\* is TRUE when an exception leaves process_file.  cv2.imwrite is taken to
\* succeed: the directory exists (main creates it) and the name ends in .png.
ProcessFile(path, dir, w, h, f, content) ==
    LET data == DataOf(content.size, content.fill)
        conv == IF content.readable THEN Dispatch(f) ELSE "none"
        res  == IF conv = "convert_uyvy" THEN convert_uyvy(data, w, h)
                ELSE IF conv = "convert_nv12" THEN convert_nv12(data, w, h)
                ELSE NoConv
        error == IF ~content.readable THEN "read"
                 ELSE IF conv = "none" THEN "format"
                 ELSE res.error
        raised == \/ error = "read" /\ "read" \notin CaughtSites
                  \/ error = "convert" /\ conv \notin CaughtSites
        save == ~raised /\ error \notin {"read", "format"} /\ ShouldSave(res.img)
        name == IF save THEN OutputPath(dir, path.stem) ELSE NoName
    IN  [last |-> [path |-> path, readable |-> content.readable,
                   size |-> content.size, fill |-> content.fill,
                   conv |-> conv, expected |-> res.expected, shape |-> res.shape,
                   error |-> error, raised |-> raised,
                   samples |-> res.samples, img |-> res.img, saved |-> name],
         outdir |-> IF save THEN dir \cup {name} ELSE dir]

NoCall ==
    [path |-> [dir |-> "", stem |-> ""], readable |-> FALSE, size |-> 0,
     fill |-> [seed |-> 0, step |-> 0], conv |-> "none", expected |-> 0,
     shape |-> <<>>, error |-> "none", raised |-> FALSE,
     samples |-> NoImage, img |-> NoImage, saved |-> NoName]

----------------------------------------------------------------------------
(* main *)

\* width, height and fmt after the preset is applied
Resolve(a) ==
    IF a.type # None
    THEN LET preset == PRESETS[a.type[1]]
         IN  [width  |-> IF a.width = None THEN Some(preset.width) ELSE a.width,
              height |-> IF a.height = None THEN Some(preset.height) ELSE a.height,
              format |-> IF a.format = None THEN Some(preset.format) ELSE a.format]
    ELSE [width |-> a.width, height |-> a.height, format |-> a.format]

\* `if not width or not height or not fmt:` -> sys.exit(1)
Rejected(r) == NotInt(r.width) \/ NotInt(r.height) \/ NotStr(r.format)

\* get_files: the path itself when it is a file, else the sorted matches
get_files(input) ==
    IF input.kind = "file" THEN <<input.path>>
    ELSE SelectSeq(AllPaths, LAMBDA p : p \in input.found)

----------------------------------------------------------------------------
(* Inputs of the model *)

\* values --width and --height take: absent, or an integer argparse accepts
IntArgs(max) == {None} \cup {Some(n) : n \in (-1)..max}

CliArgs ==
    [type   : {None} \cup {Some(t) : t \in PresetNames},
     width  : IntArgs(MaxW),
     height : IntArgs(MaxH),
     format : {None} \cup {Some(f) : f \in FormatChoices}]

PathSet == {AllPaths[i] : i \in 1..Len(AllPaths)}

Inputs ==
    {[kind |-> "missing", path |-> AllPaths[1], found |-> {}]}
    \cup {[kind |-> "file", path |-> p, found |-> {}] : p \in PathSet}
    \cup {[kind |-> "dir", path |-> AllPaths[1], found |-> S] : S \in SUBSET PathSet}

\* longest file the model reads
MaxLen == 2 * MaxW * MaxH

\* file lengths tried for a geometry: the exact UYVY and NV12 lengths, one
\* byte short, one byte long, and the empty file
Lengths(w, h) ==
    {n \in {0, 2 * w * h, 2 * w * h - 1, (3 * w * h) \div 2, (3 * w * h) \div 2 + 1} :
        0 <= n /\ n <= MaxLen}

Contents(w, h) ==
    {Unreadable}
    \cup {[readable |-> TRUE, size |-> n, fill |-> fl] : n \in Lengths(w, h), fl \in Fills}

----------------------------------------------------------------------------
(* The state machine *)

Init ==
    /\ pc = "start"
    /\ via = "none"
    /\ width = 0
    /\ height = 0
    /\ fmt = ""
    /\ files = <<>>
    /\ idx = 0
    /\ outdir \in SUBSET OldNames
    /\ log = <<>>
    /\ last = NoCall
    /\ yuv = <<0, 0, 0>>
    /\ bgr = <<>>

\* main up to the batch loop: parse, resolve, validate, list the files,
\* create the output directory (mkdir with exist_ok keeps what it holds)
Main ==
    /\ pc = "start"
    /\ \E a \in CliArgs, input \in Inputs :
        LET r == Resolve(a)
            found == get_files(input)
        IN  IF Rejected(r) \/ input.kind = "missing"
            THEN /\ pc' = "exit1"
                 /\ UNCHANGED <<via, width, height, fmt, files>>
            ELSE IF found = <<>>
            THEN /\ pc' = "exit0"
                 /\ UNCHANGED <<via, width, height, fmt, files>>
            ELSE /\ pc' = "loop"
                 /\ via' = "main"
                 /\ width' = r.width[1]
                 /\ height' = r.height[1]
                 /\ fmt' = r.format[1]
                 /\ files' = found
    /\ UNCHANGED <<idx, outdir, log, last, yuv, bgr>>

\* one iteration of `for f in files_to_process: process_file(...)`
LoopStep ==
    /\ pc = "loop"
    /\ idx < Len(files)
    /\ \E content \in Contents(width, height) :
        LET out == ProcessFile(files[idx + 1], outdir, width, height, fmt, content)
        IN  /\ last' = out.last
            /\ outdir' = out.outdir
            /\ log' = Append(log, [path |-> out.last.path, saved |-> out.last.saved])
            /\ pc' = IF out.last.raised THEN "crashed" ELSE "loop"
    /\ idx' = idx + 1
    /\ UNCHANGED <<via, width, height, fmt, files, yuv, bgr>>

\* the loop is exhausted: print("Done.")
Finish ==
    /\ pc = "loop"
    /\ idx = Len(files)
    /\ pc' = "done"
    /\ UNCHANGED <<via, width, height, fmt, files, idx, outdir, log, last, yuv, bgr>>

\* process_file called once by code that imports the module
Call ==
    /\ pc = "start"
    /\ \E p \in PathSet, f \in CallerFormats, w \in (-1)..MaxW, h \in (-1)..MaxH :
        \E content \in Contents(w, h) :
            LET out == ProcessFile(p, outdir, w, h, f, content)
            IN  /\ via' = "caller"
                /\ width' = w
                /\ height' = h
                /\ fmt' = f
                /\ files' = <<p>>
                /\ idx' = 1
                /\ last' = out.last
                /\ outdir' = out.outdir
                /\ log' = <<[path |-> p, saved |-> out.last.saved]>>
                /\ pc' = IF out.last.raised THEN "crashed" ELSE "returned"
    /\ UNCHANGED <<yuv, bgr>>

Next == Main \/ LoopStep \/ Finish \/ Call

Spec == Init /\ [][Next]_vars

\* the interpreter keeps running main until it returns or exits
FairSpec == Spec /\ WF_vars(LoopStep) /\ WF_vars(Finish)

----------------------------------------------------------------------------
(* The colour transform on its own *)

InitYUV ==
    /\ pc = "yuv"
    /\ via = "none"
    /\ width = 0
    /\ height = 0
    /\ fmt = ""
    /\ files = <<>>
    /\ idx = 0
    /\ outdir = {}
    /\ log = <<>>
    /\ last = NoCall
    /\ yuv \in ByteSamples \X ByteSamples \X ByteSamples
    /\ bgr = <<>>

Transform ==
    /\ pc = "yuv"
    /\ bgr' = YUV2BGR(yuv[1], yuv[2], yuv[3])
    /\ pc' = "bgr"
    /\ UNCHANGED <<via, width, height, fmt, files, idx, outdir, log, last, yuv>>

NextYUV == Transform

SpecYUV == InitYUV /\ [][NextYUV]_vars

----------------------------------------------------------------------------
(* Properties *)

\* a process_file call has completed in this step
Called == log' # log

Positive == width > 0 /\ height > 0

FlatGray == last.fill = [seed |-> 128, step |-> 0]

Ceil2(n) == (n + 1) \div 2

\* every channel of every pixel of img lies in lo..hi
ChannelsWithin(img, lo, hi) ==
    \A r \in DOMAIN img : \A c \in DOMAIN img[r] : \A k \in DOMAIN img[r][c] :
        lo <= img[r][c][k] /\ img[r][c][k] <= hi

\* img is rows x cols x 3
HasShape(img, rows, cols) ==
    /\ DOMAIN img = 1..rows
    /\ \A r \in DOMAIN img :
        /\ DOMAIN img[r] = 1..cols
        /\ \A c \in DOMAIN img[r] : DOMAIN img[r][c] = 1..3

\* C1: for width > 0 and height > 0 a converter returns None if and only if
\* the buffer length differs from the expected size (2wh for UYVY,
\* floor(1.5wh) for NV12).
C1_FailsIffSizeMismatch ==
    (last.conv # "none" /\ Positive) =>
        LET expected == IF last.conv = "convert_uyvy" THEN 2 * width * height
                        ELSE (3 * width * height) \div 2
        IN  (last.img = NoImage) <=> (last.size # expected)

\* C2: for width > 0 and height > 0 the expected size the converter computes
\* is 2wh for UYVY and the floor of 3wh/2 for NV12.
C2_ExpectedSize ==
    (last.conv # "none" /\ Positive) =>
        IF last.conv = "convert_uyvy"
        THEN last.expected = 2 * width * height
        ELSE /\ 2 * last.expected <= 3 * width * height
             /\ 3 * width * height < 2 * last.expected + 2

C2_Witness ==
    /\ last.conv = "convert_nv12"
    /\ width = 3 /\ height = 3
    /\ last.expected = 13

\* C3: a process_file call that ends in a read failure, a size mismatch or
\* an unsupported format tag yields no image, writes nothing and leaves the
\* output directory as it was; for an unsupported tag no converter is called.
C3_ErrorLeavesOutputAlone ==
    [][(Called /\ last'.error \in {"read", "size", "format"}) =>
          /\ last'.img = NoImage
          /\ last'.saved = NoName
          /\ outdir' = outdir
          /\ (last'.error = "format" => last'.conv = "none")]_vars

C3_Witness ==
    /\ last.error = "format"
    /\ fmt = "yuyv"
    /\ last.readable
    /\ outdir = OldNames

\* C4: in the batch loop every file of the list is handed to process_file
\* exactly once, in list order, whatever happened to the files before it,
\* and the batch reaches "Done".
C4_BatchCompletes ==
    /\ [](via = "main" =>
            /\ idx <= Len(files)
            /\ Len(log) = idx
            /\ \A i \in 1..idx : log[i].path = files[i])
    /\ [](pc = "done" => idx = Len(files))
    /\ ((pc = "loop") ~> (pc = "done"))

C4_Witness ==
    /\ pc = "done"
    /\ Len(files) = 3
    /\ log[1].saved = NoName
    /\ log[3].saved # NoName

\* C5: every channel the colour transform outputs is an integer in 0..255.
C5_ChannelsInRange ==
    (bgr # <<>>) =>
        /\ Len(bgr) = 3
        /\ \A k \in 1..3 : bgr[k] \in 0..255

C5_Witness ==
    /\ pc = "bgr"
    /\ yuv = <<255, 255, 0>>
    /\ bgr = <<255, 255, 74>>

\* C6: in a successful NV12 conversion pixel (x, y) takes its luma from
\* byte (x, y) of the luma plane and its chroma from pair (x div 2, y div 2)
\* of the chroma plane, so the four pixels of a 2x2 block share one pair.
C6_NV12ChromaSharing ==
    (last.conv = "convert_nv12" /\ last.img # NoImage) =>
        LET data   == DataOf(last.size, last.fill)
            luma   == SubSeq(data, 1, height * width)
            chroma == SubSeq(data, height * width + 1, Len(data))
            Pair(i, j) == << chroma[j * width + 2 * i + 1], chroma[j * width + 2 * i + 2] >>
            S      == last.samples
        IN  /\ HasShape(S, height, width)
            /\ \A y \in 0..(height - 1) : \A x \in 0..(width - 1) :
                /\ S[y + 1][x + 1][1] = luma[y * width + x + 1]
                /\ << S[y + 1][x + 1][2], S[y + 1][x + 1][3] >> = Pair(x \div 2, y \div 2)
                /\ last.img[y + 1][x + 1] =
                       YUV2BGR(S[y + 1][x + 1][1], S[y + 1][x + 1][2], S[y + 1][x + 1][3])
            /\ \A y1, y2 \in 0..(height - 1) : \A x1, x2 \in 0..(width - 1) :
                (y1 \div 2 = y2 \div 2 /\ x1 \div 2 = x2 \div 2) =>
                    /\ S[y1 + 1][x1 + 1][2] = S[y2 + 1][x2 + 1][2]
                    /\ S[y1 + 1][x1 + 1][3] = S[y2 + 1][x2 + 1][3]

C6_Witness ==
    /\ last.conv = "convert_nv12"
    /\ last.img # NoImage
    /\ width = 4 /\ height = 4
    /\ last.fill.step # 0
    /\ last.samples[3][3] # last.samples[1][1]

C8_PlaneLayout ==
    (last.conv = "convert_nv12" /\ Positive /\ last.error # "size") =>
        /\ last.expected = height * width + Ceil2(height) * width
        /\ last.expected = Product(last.shape)

\* C8 amended: the validated length is h*w + floor(h*w/2) and the reshape
\* asks for floor(1.5h)*w bytes; for even h both equal h*w + ceil(h/2)*w,
\* for odd h the validated length is below h*w + ceil(h/2)*w and the
\* reshape asks for fewer bytes than were validated unless w = 1.
C8_PlaneLayoutByParity ==
    (last.conv = "convert_nv12" /\ Positive /\ last.error # "size") =>
        /\ last.size = last.expected
        /\ last.expected = height * width + (height * width) \div 2
        /\ Product(last.shape) = ((3 * height) \div 2) * width
        /\ (height % 2 = 0 =>
                /\ last.expected = height * width + Ceil2(height) * width
                /\ last.expected = Product(last.shape))
        /\ (height % 2 = 1 =>
                /\ last.expected < height * width + Ceil2(height) * width
                /\ Product(last.shape) <= last.expected
                /\ (width > 1 => Product(last.shape) < last.expected))

C8_Witness ==
    /\ last.conv = "convert_nv12"
    /\ width = 2 /\ height = 3
    /\ last.size = 9
    /\ last.error = "convert"
    /\ Product(last.shape) = 8

\* C9: whenever main has entered the batch loop, width > 0, height > 0 and
\* the format is uyvy or nv12.
C9_LoopGeometryPositive ==
    (via = "main" /\ pc \in {"loop", "done", "crashed"}) =>
        /\ width > 0
        /\ height > 0
        /\ fmt \in FormatChoices

\* C10: a successful conversion writes to <stem>.png when that name is free,
\* else to <stem>_<k>.png for the least k >= 1 that is free; it never names
\* an existing file, every file present stays, and the names written by one
\* run are pairwise distinct.
C10_NeverOverwrites ==
    [][Called =>
          LET s    == last'.saved
              stem == last'.path.stem
          IN  /\ outdir \subseteq outdir'
              /\ (last'.img = NoImage => outdir' = outdir)
              /\ (last'.img # NoImage =>
                    /\ s # NoName
                    /\ s \notin outdir
                    /\ outdir' = outdir \cup {s}
                    /\ (PngName(stem) \notin outdir => s = PngName(stem))
                    /\ (PngName(stem) \in outdir =>
                          \E k \in 1..(Cardinality(outdir) + 1) :
                              /\ s = PngNameN(stem, k)
                              /\ \A j \in 1..(k - 1) : PngNameN(stem, j) \in outdir))
              /\ \A i, j \in 1..Len(log') :
                    (i # j /\ log'[i].saved # NoName) => log'[i].saved # log'[j].saved]_vars

C10_Witness ==
    /\ pc = "done"
    /\ Len(log) = 3
    /\ log[1].saved = "a_1.png"
    /\ log[2].saved = "a_1_1.png"
    /\ log[3].saved = "a_2.png"
    /\ "a.png" \in outdir

====
